---- MODULE Spec2Model ----
(***************************************************************************)
(* Model of scripts/finance/check_finance_env.py: the finance environment  *)
(* validator.  A Python str is a sequence of one-character strings; the    *)
(* literal segments of an f-string or of a constant message are single     *)
(* multi-character tokens, so "stub mode" is <<"stub mode">> and the       *)
(* interpolated values keep their characters.                              *)
(***************************************************************************)
EXTENDS Integers, Sequences, FiniteSets, TLC

(***************************************************************************)
(* Bounds of the explored inputs.                                          *)
(***************************************************************************)
\* The size of the input of one run is at most MaxInput: one for each
\* variable of the process environment, one for --strict-file, one for an
\* env file that exists and one for each of its lines.
MaxInput == 3

(***************************************************************************)
(* Python values.                                                          *)
(***************************************************************************)
\* Python's None; a one-token sequence, so no str (sequence of characters)
\* is equal to it.
None == <<"None">>

\* str.strip() with no argument removes these from both ends.
Whitespace == {" ", "\t", "\n"}

Digits == <<"0", "1", "2", "3", "4", "5", "6", "7", "8", "9">>

UpperCase == <<"A", "B", "C", "D", "E", "F", "G", "H", "I", "J", "K", "L", "M",
               "N", "O", "P", "Q", "R", "S", "T", "U", "V", "W", "X", "Y", "Z">>

LowerCase == <<"a", "b", "c", "d", "e", "f", "g", "h", "i", "j", "k", "l", "m",
               "n", "o", "p", "q", "r", "s", "t", "u", "v", "w", "x", "y", "z">>

Range(s) == {s[i] : i \in 1..Len(s)}

IndexOf(c, s) == CHOOSE i \in 1..Len(s) : s[i] = c

SetMin(S) == CHOOSE x \in S : \A y \in S : x <= y

SetMax(S) == CHOOSE x \in S : \A y \in S : x >= y

\* str.strip()
Strip(s) ==
  LET keep == {i \in 1..Len(s) : s[i] \notin Whitespace}
  IN  IF keep = {} THEN <<>> ELSE SubSeq(s, SetMin(keep), SetMax(keep))

\* str.strip(chars) for one character
StripChar(s, c) ==
  LET keep == {i \in 1..Len(s) : s[i] # c}
  IN  IF keep = {} THEN <<>> ELSE SubSeq(s, SetMin(keep), SetMax(keep))

LowerChar(c) ==
  IF c \in Range(UpperCase) THEN LowerCase[IndexOf(c, UpperCase)] ELSE c

\* str.lower()
Lower(s) == [i \in 1..Len(s) |-> LowerChar(s[i])]

\* str.find(c): the first index (1-based) of c, 0 when absent
Find(s, c) ==
  LET at == {i \in 1..Len(s) : s[i] = c}
  IN  IF at = {} THEN 0 ELSE SetMin(at)

\* str(n) for an int
RECURSIVE NatStr(_)
NatStr(n) ==
  IF n < 10 THEN <<Digits[n + 1]>>
  ELSE NatStr(n \div 10) \o <<Digits[(n % 10) + 1]>>

IntStr(n) == IF n < 0 THEN <<"-">> \o NatStr(0 - n) ELSE NatStr(n)

\* str(b).lower() for a bool
BoolStr(b) ==
  Lower(IF b THEN <<"T", "r", "u", "e">> ELSE <<"F", "a", "l", "s", "e">>)

\* dict.get(key, "")
Get(env, key) == IF key \in DOMAIN env THEN env[key] ELSE <<>>

\* {**a, **b}: b wins on a key of both
Merge(a, b) ==
  [k \in (DOMAIN a) \cup (DOMAIN b) |-> IF k \in DOMAIN b THEN b[k] ELSE a[k]]

EmptyMap == [k \in {} |-> <<>>]

(***************************************************************************)
(* The helpers of the script.                                              *)
(***************************************************************************)
\* pick with the loop taking the last qualifying alias instead of the first
RECURSIVE pick_LastWins(_, _, _)
pick_LastWins(env, keys, default) ==
  IF keys = <<>> THEN default
  ELSE LET value == Strip(Get(env, keys[Len(keys)]))
       IN  IF value # <<>> THEN value
           ELSE pick_LastWins(env, SubSeq(keys, 1, Len(keys) - 1), default)

\* pick(env, keys, default): the stripped value of the first key whose
\* stripped value is non-empty, else default.
RECURSIVE pick(_, _, _)
pick(env, keys, default) ==
  IF keys = <<>> THEN default
  ELSE LET value == Strip(Get(env, Head(keys)))
       IN  IF value # <<>> THEN value ELSE pick(env, Tail(keys), default)

\* bool(x) of a str or None
Truthy(x) == x # None /\ x # <<>>

TrueWords == {<<"1">>, <<"t", "r", "u", "e">>, <<"y", "e", "s">>, <<"o", "n">>}

FalseWords == {<<"0">>, <<"f", "a", "l", "s", "e">>, <<"n", "o">>, <<"o", "f", "f">>}

\* parse_bool(raw, default)
parse_bool(raw, default) ==
  IF raw = None THEN default
  ELSE LET normalized == Lower(Strip(raw))
       IN  IF normalized \in TrueWords THEN TRUE
           ELSE IF normalized \in FalseWords THEN FALSE
           ELSE default

RECURSIVE DigitsValue(_)
DigitsValue(ds) ==
  IF ds = <<>> THEN 0
  ELSE 10 * DigitsValue(SubSeq(ds, 1, Len(ds) - 1)) + (IndexOf(ds[Len(ds)], Digits) - 1)

\* int(s) of a str, base 10: surrounding whitespace, an optional sign, then
\* digits, single underscores allowed between digits.  [ok |-> FALSE] stands
\* for ValueError.
IntLiteral(s) ==
  LET t      == Strip(s)
      signed == t # <<>> /\ t[1] \in {"+", "-"}
      body   == IF signed THEN Tail(t) ELSE t
      wellFormed ==
        /\ body # <<>>
        /\ \A i \in 1..Len(body) : body[i] \in Range(Digits) \cup {"_"}
        /\ body[1] # "_" /\ body[Len(body)] # "_"
        /\ \A i \in 1..(Len(body) - 1) : ~(body[i] = "_" /\ body[i + 1] = "_")
      magnitude == DigitsValue(SelectSeq(body, LAMBDA c : c # "_"))
  IN  IF ~wellFormed THEN [ok |-> FALSE, value |-> 0]
      ELSE [ok |-> TRUE,
            value |-> IF signed /\ t[1] = "-" THEN 0 - magnitude ELSE magnitude]

\* parse_int(raw, default)
parse_int(raw, default) ==
  IF raw = None THEN default
  ELSE LET parsed == IntLiteral(Strip(raw))
       IN  IF parsed.ok THEN parsed.value ELSE default

(***************************************************************************)
(* urllib.parse.urlparse, as far as valid_url reads it: the scheme and the *)
(* netloc of an ASCII url, or ValueError.  The library is not part of the  *)
(* repository and the script runs on any Python >= 3.10, so the points on  *)
(* which the releases differ are parameters of the split.                  *)
(***************************************************************************)
\* alphaFirst: the scheme must start with an ASCII letter (newer releases).
\* checkBracketed: a netloc holding both brackets has its bracketed host
\* validated as an IP literal (newer releases); bracketHostOk is the verdict
\* of that validation, which the model leaves open.
PythonBuilds ==
  [alphaFirst : BOOLEAN, checkBracketed : BOOLEAN, bracketHostOk : BOOLEAN]

SchemeChars == Range(LowerCase) \cup Range(UpperCase) \cup Range(Digits) \cup {"+", "-", "."}

Letters == Range(LowerCase) \cup Range(UpperCase)

\* url.lstrip(_WHATWG_C0_CONTROL_OR_SPACE)
LStripSpace(s) ==
  LET keep == {i \in 1..Len(s) : s[i] \notin Whitespace \cup {"\r"}}
  IN  IF keep = {} THEN <<>> ELSE SubSeq(s, SetMin(keep), Len(s))

urlsplit(raw, build) ==
  LET url0 == SelectSeq(LStripSpace(raw), LAMBDA c : c \notin {"\t", "\r", "\n"})
      i    == Find(url0, ":")
      hasScheme ==
        /\ i > 1
        /\ build.alphaFirst => url0[1] \in Letters
        /\ \A j \in 1..(i - 1) : url0[j] \in SchemeChars
      scheme == IF hasScheme THEN Lower(SubSeq(url0, 1, i - 1)) ELSE <<>>
      url1   == IF hasScheme THEN SubSeq(url0, i + 1, Len(url0)) ELSE url0
      hasNetloc == Len(url1) >= 2 /\ url1[1] = "/" /\ url1[2] = "/"
      \* _splitnetloc(url, 2): up to the first of / ? #
      stops  == {j \in 3..Len(url1) : url1[j] \in {"/", "?", "#"}}
      netloc == IF ~hasNetloc THEN <<>>
                ELSE SubSeq(url1, 3, IF stops = {} THEN Len(url1) ELSE SetMin(stops) - 1)
      open   == "[" \in Range(netloc)
      close  == "]" \in Range(netloc)
      raises == \/ open /\ ~close
                \/ close /\ ~open
                \/ open /\ close /\ build.checkBracketed /\ ~build.bracketHostOk
  IN  [raised |-> raises, scheme |-> scheme, netloc |-> netloc]

\* valid_url(raw) on one build: [raised |-> TRUE] is the ValueError of
\* urlparse leaving valid_url.
valid_url_on(raw, build) ==
  LET parsed == urlsplit(raw, build)
  IN  [raised |-> parsed.raised,
       value  |-> ~parsed.raised /\ parsed.scheme # <<>> /\ parsed.netloc # <<>>]

\* valid_url(raw): what the builds can produce
valid_url(raw) == {valid_url_on(raw, build) : build \in PythonBuilds}

(***************************************************************************)
(* The recognised variables.  A variable name is one token.                *)
(***************************************************************************)
EXPERT_MODE_KEYS == <<<<"OPENFINCLAW_FIN_EXPERT_MODE">>, <<"FIN_EXPERT_SDK_MODE">>>>

INFO_MODE_KEYS == <<<<"OPENFINCLAW_FIN_INFO_MODE">>, <<"FIN_INFO_FEED_MODE">>>>

EXPERT_API_KEY_KEYS == <<<<"OPENFINCLAW_FIN_EXPERT_API_KEY">>, <<"FIN_EXPERT_SDK_API_KEY">>>>

EXPERT_ENDPOINT_KEYS == <<<<"OPENFINCLAW_FIN_EXPERT_ENDPOINT">>, <<"FIN_EXPERT_SDK_ENDPOINT">>>>

INFO_API_KEY_KEYS == <<<<"OPENFINCLAW_FIN_INFO_API_KEY">>, <<"FIN_INFO_FEED_API_KEY">>>>

INFO_ENDPOINT_KEYS == <<<<"OPENFINCLAW_FIN_INFO_ENDPOINT">>, <<"FIN_INFO_FEED_ENDPOINT">>>>

AUTO_EVALUATE_KEYS ==
  <<<<"OPENFINCLAW_FIN_MONITORING_AUTO_EVALUATE">>, <<"FIN_MONITORING_AUTO_EVALUATE">>>>

POLL_INTERVAL_KEYS ==
  <<<<"OPENFINCLAW_FIN_MONITORING_POLL_INTERVAL_MS">>, <<"FIN_MONITORING_POLL_INTERVAL_MS">>>>

Stub == <<"s", "t", "u", "b">>

Live == <<"l", "i", "v", "e">>

ValidModes == {Stub, Live}

\* the default of the poll interval, in ms
DefaultPollIntervalMs == 300000

\* the least accepted poll interval, in ms
MinPollIntervalMs == 10000

(***************************************************************************)
(* parse_env_file.  A line of the file is a sequence of tokens: characters, *)
(* variable names and the word "export".                                   *)
(***************************************************************************)
\* the env file does not exist
NoFile == <<<<"no such file">>>>

StartsWithExport(line) == Len(line) >= 2 /\ line[1] = "export" /\ line[2] = " "

\* one turn of the loop over the lines
ParseLine(loaded, raw_line) ==
  LET line0 == Strip(raw_line)
      line  == IF StartsWithExport(line0) THEN Strip(SubSeq(line0, 3, Len(line0))) ELSE line0
      eq    == Find(line, "=")
      key   == Strip(SubSeq(line, 1, eq - 1))
      value == StripChar(StripChar(Strip(SubSeq(line, eq + 1, Len(line))), "'"), "\"")
  IN  IF line0 = <<>> \/ line0[1] = "#" THEN loaded
      ELSE IF eq = 0 THEN loaded
      ELSE IF key # <<>> THEN (key :> value) @@ loaded
      ELSE loaded

RECURSIVE ParseLines(_, _)
ParseLines(loaded, lines) ==
  IF lines = <<>> THEN loaded
  ELSE ParseLines(ParseLine(loaded, Head(lines)), Tail(lines))

parse_env_file(content) ==
  IF content = NoFile THEN EmptyMap ELSE ParseLines(EmptyMap, content)

(***************************************************************************)
(* The explored inputs.                                                    *)
(***************************************************************************)
Blank == <<" ">>

ModeValues(i) ==
  IF i = 1 THEN {Live, <<"P", "r", "o", "d">>, Blank}
  ELSE {<<" ", "L", "I", "V", "E", " ">>, Stub}

ApiKeyValues(i) ==
  IF i = 1 THEN {<<"k">>, <<>>} ELSE {<<" ", "s", " ">>}

EndpointValues(i) ==
  IF i = 1
  THEN {<<"h", ":", "/", "/", "h">>, <<"h", ":", "/", "/", "[">>, <<"/", "/", "h">>}
  ELSE {<<" ", "H", ":", "/", "/", "h", "/", " ">>, <<"h", ":", "/", "h">>,
        <<"h", ":", "/", "/", "[", "h", "]">>}

AutoEvaluateValues(i) ==
  IF i = 1 THEN {<<" ", "O", "F", "F", " ">>, <<"m", "a", "y", "b", "e">>}
  ELSE {<<"O", "n">>}

PollIntervalValues(i) ==
  IF i = 1 THEN {<<"9", "9", "9", "9">>, <<"1", "e", "5">>}
  ELSE {<<" ", "1", "0", "0", "0", "0", " ">>, <<"-", "1">>}

\* the values explored for the i-th alias of each setting
Domains ==
  [i \in 1..2 |->
     (EXPERT_MODE_KEYS[i] :> ModeValues(i))
  @@ (INFO_MODE_KEYS[i] :> ModeValues(i))
  @@ (EXPERT_API_KEY_KEYS[i] :> ApiKeyValues(i))
  @@ (INFO_API_KEY_KEYS[i] :> ApiKeyValues(i))
  @@ (EXPERT_ENDPOINT_KEYS[i] :> EndpointValues(i))
  @@ (INFO_ENDPOINT_KEYS[i] :> EndpointValues(i))
  @@ (AUTO_EVALUATE_KEYS[i] :> AutoEvaluateValues(i))
  @@ (POLL_INTERVAL_KEYS[i] :> PollIntervalValues(i))]

ValueDomain == Domains[1] @@ Domains[2]

AllKeys == DOMAIN ValueDomain

RECURSIVE MapsOver(_)
MapsOver(keys) ==
  IF keys = {} THEN {EmptyMap}
  ELSE LET k == CHOOSE x \in keys : TRUE
       IN  {(k :> v) @@ m : v \in ValueDomain[k], m \in MapsOver(keys \ {k})}

\* the process environments with n variables set
Environs(n) ==
  UNION {MapsOver(keys) : keys \in {ks \in SUBSET AllKeys : Cardinality(ks) = n}}

FileLines ==
  { <<"export", " ", "FIN_EXPERT_SDK_MODE", "=", "l", "i", "v", "e">>,
    <<"FIN_EXPERT_SDK_API_KEY", "=", "'", "k", "'">>,
    <<" ", "FIN_EXPERT_SDK_ENDPOINT", " ", "=", " ", "\"", "h", ":", "/", "/", "h", "\"">>,
    <<"#", "FIN_INFO_FEED_MODE", "=", "l", "i", "v", "e">> }

RECURSIVE Files(_)
Files(n) ==
  IF n = 0 THEN {<<>>}
  ELSE Files(n - 1) \cup {<<l>> \o f : l \in FileLines, f \in {g \in Files(n - 1) : Len(g) = n - 1}}

\* the env files of size up to n: a missing file has size 0, a file has
\* size 1 plus the number of its lines
FileContents(n) == {NoFile} \cup (IF n >= 1 THEN Files(n - 1) ELSE {})

FlagSize(flag) == IF flag THEN 1 ELSE 0

\* the runs whose input is of size up to MaxInput
Inputs ==
  UNION {[strict_file : {flag},
          content : FileContents(MaxInput - FlagSize(flag) - n),
          environ : Environs(n)] :
           flag \in BOOLEAN, n \in 0..(MaxInput - 1)}
         \cup [strict_file : {FALSE}, content : {NoFile}, environ : Environs(MaxInput)]

(***************************************************************************)
(* The state of one run of the script.                                     *)
(***************************************************************************)
VARIABLES
  strict_file,   \* args.strict_file
  content,       \* the lines of the file at args.env_file, or NoFile
  environ,       \* os.environ
  pc,            \* where the run stands
  merged,        \* main: the map handed to run_checks
  expert_mode,   \* run_checks: local
  info_mode,     \* run_checks: local
  results,       \* run_checks: the CheckResult list
  errors,        \* run_checks: the error list
  stdout,        \* the lines printed so far
  exit_code      \* what main returns, NotExited until it does

vars == <<strict_file, content, environ, pc, merged, expert_mode, info_mode,
          results, errors, stdout, exit_code>>

NotExited == 0 - 1

inputs == <<strict_file, content, environ>>

\* the path given as --env-file
EnvFilePath == <<".env.finance">>

CheckResult(name, ok, detail) == [name |-> name, ok |-> ok, detail |-> detail]

ExpertCredentialsError ==
  <<"Expert live mode requires FIN_EXPERT_SDK_API_KEY and FIN_EXPERT_SDK_ENDPOINT (valid URL)">>

InfoCredentialsError ==
  <<"Info live mode requires FIN_INFO_FEED_API_KEY and FIN_INFO_FEED_ENDPOINT (valid URL)">>

PollIntervalError == <<"Monitoring poll interval must be >= 10000 ms">>

InvalidModeError(group, mode) ==
  <<"Invalid ", group, " mode: ">> \o mode \o <<" (expected stub/live)">>

Init ==
  /\ \E i \in Inputs :
       /\ strict_file = i.strict_file
       /\ content = i.content
       /\ environ = i.environ
  /\ pc = "main"
  /\ merged = EmptyMap
  /\ expert_mode = None
  /\ info_mode = None
  /\ results = <<>>
  /\ errors = <<>>
  /\ stdout = <<>>
  /\ exit_code = NotExited

\* Main_StrictFileMissing without its return: the failure line, then the checks
Main_StrictFileMissing_NoReturn ==
  /\ pc = "main"
  /\ strict_file /\ content = NoFile
  /\ stdout' = Append(stdout, <<"[FAIL] env file not found: ">> \o EnvFilePath)
  /\ merged' = Merge(parse_env_file(content), environ)
  /\ pc' = "run_checks"
  /\ UNCHANGED <<inputs, expert_mode, info_mode, results, errors, exit_code>>

\* main, --strict-file and no file: one line, exit status 1
Main_StrictFileMissing ==
  /\ pc = "main"
  /\ strict_file /\ content = NoFile
  /\ stdout' = Append(stdout, <<"[FAIL] env file not found: ">> \o EnvFilePath)
  /\ exit_code' = 1
  /\ pc' = "exit"
  /\ UNCHANGED <<inputs, merged, expert_mode, info_mode, results, errors>>

\* main up to the call of run_checks: the file below the process environment
Main_Merge ==
  /\ pc = "main"
  /\ ~(strict_file /\ content = NoFile)
  /\ merged' = Merge(parse_env_file(content), environ)
  /\ pc' = "run_checks"
  /\ UNCHANGED <<inputs, expert_mode, info_mode, results, errors, stdout, exit_code>>

\* ResolveMode without .lower()
ResolveMode_NoLower(env, keys) ==
  LET picked == pick(env, keys, Stub)
  IN  IF Truthy(picked) THEN picked ELSE Stub

\* the resolved mode of one group
ResolveMode(env, keys) ==
  LET picked == pick(env, keys, Stub)
  IN  Lower(IF Truthy(picked) THEN picked ELSE Stub)

\* ModeErrors with the info branch never appending
ModeErrors_ExpertOnly(group, mode) ==
  IF group = "expert" /\ mode \notin ValidModes THEN <<InvalidModeError(group, mode)>>
  ELSE <<>>

ModeErrors(group, mode) ==
  IF mode \notin ValidModes THEN <<InvalidModeError(group, mode)>> ELSE <<>>

\* run_checks: both modes resolved, their errors and their results
RunChecks_Modes ==
  /\ pc = "run_checks"
  /\ LET em == ResolveMode(merged, EXPERT_MODE_KEYS)
         im == ResolveMode(merged, INFO_MODE_KEYS)
     IN  /\ expert_mode' = em
         /\ info_mode' = im
         /\ errors' = ModeErrors("expert", em) \o ModeErrors("info", im)
         /\ results' = << CheckResult("expert.mode", em \in ValidModes, em),
                          CheckResult("info.mode", im \in ValidModes, im) >>
  /\ pc' = "expert_credentials"
  /\ UNCHANGED <<inputs, merged, stdout, exit_code>>

\* what the evaluation of
\*   bool(key) and bool(endpoint) and valid_url(endpoint)
\* can come to: valid_url is called only when both are truthy
CredentialsOutcomes(key, endpoint) ==
  IF Truthy(key) /\ Truthy(endpoint) THEN valid_url(endpoint)
  ELSE {[raised |-> FALSE, value |-> FALSE]}

\* the live branch of one credentials check, not raising
LiveCredentials(name, key_keys, endpoint_keys, message, next) ==
  \E outcome \in CredentialsOutcomes(pick(merged, key_keys, None),
                                     pick(merged, endpoint_keys, None)) :
    /\ ~outcome.raised
    /\ results' = Append(results,
                         CheckResult(name, outcome.value,
                                     <<"apiKey+endpoint required in live mode">>))
    /\ errors' = IF outcome.value THEN errors ELSE Append(errors, message)
    /\ pc' = next
    /\ UNCHANGED <<inputs, merged, expert_mode, info_mode, stdout, exit_code>>

\* the other branch of one credentials check
StubCredentials(name, next) ==
  /\ results' = Append(results, CheckResult(name, TRUE, <<"stub mode">>))
  /\ pc' = next
  /\ UNCHANGED <<inputs, merged, expert_mode, info_mode, errors, stdout, exit_code>>

\* ValueError leaves valid_url, run_checks and main: the lists built so far
\* are not returned, main prints nothing and returns no exit code (the
\* interpreter ends the process with a traceback)
CredentialsRaise(key_keys, endpoint_keys) ==
  \E outcome \in CredentialsOutcomes(pick(merged, key_keys, None),
                                     pick(merged, endpoint_keys, None)) :
    /\ outcome.raised
    /\ pc' = "raised"
    /\ UNCHANGED <<inputs, merged, expert_mode, info_mode, results, errors, stdout,
                   exit_code>>

RunChecks_ExpertLive ==
  /\ pc = "expert_credentials"
  /\ expert_mode = Live
  /\ LiveCredentials("expert.live_credentials", EXPERT_API_KEY_KEYS,
                     EXPERT_ENDPOINT_KEYS, ExpertCredentialsError, "info_credentials")

\* RunChecks_ExpertStub with the test on "stub" instead of on "live": an
\* invalid mode has its credentials checked
RunChecks_ExpertStub_UnlessStub ==
  /\ pc = "expert_credentials"
  /\ expert_mode # Live
  /\ IF expert_mode = Stub
     THEN StubCredentials("expert.live_credentials", "info_credentials")
     ELSE LiveCredentials("expert.live_credentials", EXPERT_API_KEY_KEYS,
                          EXPERT_ENDPOINT_KEYS, ExpertCredentialsError, "info_credentials")

RunChecks_ExpertStub ==
  /\ pc = "expert_credentials"
  /\ expert_mode # Live
  /\ StubCredentials("expert.live_credentials", "info_credentials")

RunChecks_ExpertRaise ==
  /\ pc = "expert_credentials"
  /\ expert_mode = Live
  /\ CredentialsRaise(EXPERT_API_KEY_KEYS, EXPERT_ENDPOINT_KEYS)

RunChecks_InfoLive ==
  /\ pc = "info_credentials"
  /\ info_mode = Live
  /\ LiveCredentials("info.live_credentials", INFO_API_KEY_KEYS,
                     INFO_ENDPOINT_KEYS, InfoCredentialsError, "monitoring")

RunChecks_InfoStub ==
  /\ pc = "info_credentials"
  /\ info_mode # Live
  /\ StubCredentials("info.live_credentials", "monitoring")

RunChecks_InfoRaise ==
  /\ pc = "info_credentials"
  /\ info_mode = Live
  /\ CredentialsRaise(INFO_API_KEY_KEYS, INFO_ENDPOINT_KEYS)

\* monitoring_enabled with the default of the flag off
monitoring_enabled_DefaultOff(env) == parse_bool(pick(env, AUTO_EVALUATE_KEYS, None), FALSE)

monitoring_enabled(env) == parse_bool(pick(env, AUTO_EVALUATE_KEYS, None), TRUE)

monitoring_poll(env) == parse_int(pick(env, POLL_INTERVAL_KEYS, None), DefaultPollIntervalMs)

\* monitoring_ok with > for >=
monitoring_ok_Strict(poll) == poll > MinPollIntervalMs

monitoring_ok(poll) == poll >= MinPollIntervalMs

MonitoringDetail(poll, enabled) ==
  IntStr(poll) \o <<" (autoEvaluate=">> \o BoolStr(enabled) \o <<")">>

\* run_checks: the monitoring check, and the return to main
RunChecks_Monitoring ==
  /\ pc = "monitoring"
  /\ LET poll == monitoring_poll(merged)
         ok   == monitoring_ok(poll)
     IN  /\ results' = Append(results,
                              CheckResult("monitoring.poll_interval_ms", ok,
                                          MonitoringDetail(poll, monitoring_enabled(merged))))
         /\ errors' = IF ok THEN errors ELSE Append(errors, PollIntervalError)
  /\ pc' = "report"
  /\ UNCHANGED <<inputs, merged, expert_mode, info_mode, stdout, exit_code>>

ResultLine(row) ==
  <<"- [", IF row.ok THEN "PASS" ELSE "FAIL", "] ", row.name, ": ">> \o row.detail

\* main: return 1 after the errors, 0 after the success line
ReportExitCode(errs) == IF errs # <<>> THEN 1 ELSE 0

\* main after run_checks: the report and the exit status
Main_Report ==
  /\ pc = "report"
  /\ stdout' =
       stdout
       \o << <<"Finance env validation (uv):">>,
             <<"- env file: ">> \o EnvFilePath
               \o <<" (", IF content # NoFile THEN "found"
                          ELSE "missing, using process env only", ")">> >>
       \o [i \in 1..Len(results) |-> ResultLine(results[i])]
       \o (IF errors # <<>>
           THEN << <<"\nErrors:">> >> \o [i \in 1..Len(errors) |-> <<"- ">> \o errors[i]]
           ELSE << <<"\nAll finance environment checks passed.">> >>)
  /\ exit_code' = ReportExitCode(errors)
  /\ pc' = "exit"
  /\ UNCHANGED <<inputs, merged, expert_mode, info_mode, results, errors>>

Next ==
  \/ Main_StrictFileMissing
  \/ Main_Merge
  \/ RunChecks_Modes
  \/ RunChecks_ExpertLive
  \/ RunChecks_ExpertStub
  \/ RunChecks_ExpertRaise
  \/ RunChecks_InfoLive
  \/ RunChecks_InfoStub
  \/ RunChecks_InfoRaise
  \/ RunChecks_Monitoring
  \/ Main_Report

Spec == Init /\ [][Next]_vars

(***************************************************************************)
(* Vocabulary of the properties.                                           *)
(***************************************************************************)
CheckNames ==
  <<"expert.mode", "info.mode", "expert.live_credentials", "info.live_credentials",
    "monitoring.poll_interval_ms">>

Names(rs) == [i \in 1..Len(rs) |-> rs[i].name]

StrictFileMissing == strict_file /\ content = NoFile

\* run_checks has returned its pair to main
RunChecksReturned == pc = "report" \/ (pc = "exit" /\ ~StrictFileMissing)

\* run_checks was called and control has left it, by return or by exception
RunChecksLeft == RunChecksReturned \/ pc = "raised"

Count(seq, x) == Cardinality({i \in 1..Len(seq) : seq[i] = x})

\* the value, as configured, of the first alias that is not blank
ConfiguredValue(env, keys) ==
  IF Strip(Get(env, keys[1])) # <<>> THEN Get(env, keys[1]) ELSE Get(env, keys[2])

\* the first alias, namespaced before legacy, whose trimmed value is not
\* empty gives the result, trimmed; the default otherwise
FirstQualifying(env, keys, default) ==
  LET namespaced == Strip(Get(env, keys[1]))
      legacy     == Strip(Get(env, keys[2]))
  IN  IF namespaced # <<>> THEN namespaced
      ELSE IF legacy # <<>> THEN legacy
      ELSE default

AliasLists ==
  {EXPERT_MODE_KEYS, INFO_MODE_KEYS, EXPERT_API_KEY_KEYS, EXPERT_ENDPOINT_KEYS,
   INFO_API_KEY_KEYS, INFO_ENDPOINT_KEYS, AUTO_EVALUATE_KEYS, POLL_INTERVAL_KEYS}

Groups ==
  { [group |-> "expert", at |-> 1, creds |-> 3, mode_keys |-> EXPERT_MODE_KEYS,
     key_keys |-> EXPERT_API_KEY_KEYS, endpoint_keys |-> EXPERT_ENDPOINT_KEYS,
     message |-> ExpertCredentialsError],
    [group |-> "info", at |-> 2, creds |-> 4, mode_keys |-> INFO_MODE_KEYS,
     key_keys |-> INFO_API_KEY_KEYS, endpoint_keys |-> INFO_ENDPOINT_KEYS,
     message |-> InfoCredentialsError] }

\* the mode a group resolves to: trimmed, lower case, stub when nothing is set
ModeOf(g) == Lower(FirstQualifying(merged, g.mode_keys, Stub))

\* run_checks is past the credentials check of group g
PastCredentials(g) ==
  Len(results) >= g.creds \/ (pc = "raised" /\ Len(results) = g.creds - 1)

\* the API key and the endpoint of g are set, and the endpoint splits into
\* a scheme and a network location, both non-empty
HasCredentials(g) ==
  LET key      == FirstQualifying(merged, g.key_keys, <<>>)
      endpoint == FirstQualifying(merged, g.endpoint_keys, <<>>)
  IN  /\ key # <<>>
      /\ endpoint # <<>>
      /\ \E build \in PythonBuilds : valid_url_on(endpoint, build).value

(***************************************************************************)
(* C1: for every configuration map run_checks returns exactly 5 results,   *)
(* named expert.mode, info.mode, expert.live_credentials,                  *)
(* info.live_credentials, monitoring.poll_interval_ms in this order; no    *)
(* check is skipped or repeated.  Stated of every way control leaves       *)
(* run_checks.                                                             *)
(***************************************************************************)
C1_FiveResultsForEveryMap == RunChecksLeft => Names(results) = CheckNames

\* what remains of C1 on the runs where run_checks returns
C1_FiveResultsWhenReturned == RunChecksReturned => Names(results) = CheckNames

(***************************************************************************)
(* C2: the error list run_checks returns is empty if and only if every     *)
(* returned result has ok = TRUE.                                          *)
(***************************************************************************)
C2_NoErrorsIffAllOk ==
  RunChecksReturned => (errors = <<>> <=> \A i \in 1..Len(results) : results[i].ok)

C2_Witness ==
  /\ pc = "report"
  /\ errors # <<>>
  /\ results[1].ok /\ results[2].ok /\ ~results[3].ok /\ results[5].ok

(***************************************************************************)
(* C3: pick returns the (trimmed) value of the first alias, namespaced     *)
(* before legacy, whose value is non-empty after trimming, and the default *)
(* when neither qualifies; the modes run_checks resolves follow it.        *)
(***************************************************************************)
C3_PickPriority ==
  /\ pc = "run_checks" =>
       \A keys \in AliasLists : \A default \in {None, Stub} :
         pick(merged, keys, default) = FirstQualifying(merged, keys, default)
  /\ Len(results) >= 2 =>
       \A g \in Groups : results[g.at].detail = ModeOf(g)

\* both aliases of the expert mode set to different values: the namespaced one is reported
C3_Witness ==
  /\ pc = "report"
  /\ Strip(Get(merged, EXPERT_MODE_KEYS[1])) = <<"P", "r", "o", "d">>
  /\ Strip(Get(merged, EXPERT_MODE_KEYS[2])) = Stub
  /\ results[1].detail = <<"p", "r", "o", "d">>

(***************************************************************************)
(* C4: when a group's mode resolves to live, its live_credentials result   *)
(* has ok = TRUE if and only if the API key resolves to a non-empty value  *)
(* and the endpoint resolves to a non-empty value with a scheme and a      *)
(* network authority; when it is FALSE exactly one credentials error of    *)
(* the group is appended.                                                  *)
(***************************************************************************)
C4_LiveCredentials ==
  \A g \in Groups :
    (PastCredentials(g) /\ ModeOf(g) = Live) =>
      /\ Len(results) >= g.creds
      /\ results[g.creds].name = CheckNames[g.creds]
      /\ results[g.creds].ok <=> HasCredentials(g)
      /\ Count(errors, g.message) = IF results[g.creds].ok THEN 0 ELSE 1

\* what remains of C4 on the runs where the check does not raise
C4_LiveCredentialsWhenRecorded ==
  \A g \in Groups :
    (Len(results) >= g.creds /\ ModeOf(g) = Live) =>
      /\ results[g.creds].name = CheckNames[g.creds]
      /\ results[g.creds].ok <=> HasCredentials(g)
      /\ Count(errors, g.message) = IF results[g.creds].ok THEN 0 ELSE 1

(***************************************************************************)
(* C5 as written: when a mode resolves outside {stub, live} the mode       *)
(* result has ok = FALSE, its detail is the literal configured value, and  *)
(* the error "Invalid <group> mode: <value> (expected stub/live)" with     *)
(* that value is in the error list.                                        *)
(***************************************************************************)
C5_EchoesConfiguredValue ==
  \A g \in Groups :
    (Len(results) >= 2 /\ ModeOf(g) \notin ValidModes) =>
      LET value == ConfiguredValue(merged, g.mode_keys)
      IN  /\ ~results[g.at].ok
          /\ results[g.at].detail = value
          /\ Count(errors, InvalidModeError(g.group, value)) = 1

(***************************************************************************)
(* C5 amended: when a mode resolves outside {stub, live} the mode result   *)
(* has ok = FALSE, and its detail and the error "Invalid <group> mode:     *)
(* <value> (expected stub/live)" carry the resolved value: the configured  *)
(* value trimmed and in lower case.                                        *)
(***************************************************************************)
C5_EchoesResolvedValue ==
  \A g \in Groups :
    (Len(results) >= 2 /\ ModeOf(g) \notin ValidModes) =>
      LET value == Lower(Strip(ConfiguredValue(merged, g.mode_keys)))
      IN  /\ ~results[g.at].ok
          /\ results[g.at].detail = value
          /\ Count(errors, InvalidModeError(g.group, value)) = 1

C5_Witness ==
  /\ pc = "report"
  /\ ConfiguredValue(merged, EXPERT_MODE_KEYS) = <<"P", "r", "o", "d">>
  /\ results[1] = CheckResult("expert.mode", FALSE, <<"p", "r", "o", "d">>)
  /\ errors[1] = <<"Invalid ", "expert", " mode: ", "p", "r", "o", "d", " (expected stub/live)">>

(***************************************************************************)
(* C6: the monitoring result has ok = TRUE if and only if the resolved     *)
(* interval is >= 10000, the resolved interval being the integer parsed    *)
(* from the first non-empty alias value, or 300000 when nothing is set or  *)
(* the value is no integer; an unparsable value passes without an error,   *)
(* 9999 fails, 10000 passes, and the poll-interval error is in the error   *)
(* list exactly when the result fails.                                     *)
(***************************************************************************)
ResolvedInterval ==
  LET raw == FirstQualifying(merged, POLL_INTERVAL_KEYS, <<>>)
  IN  IF raw # <<>> /\ IntLiteral(raw).ok THEN IntLiteral(raw).value ELSE 300000

C6_PollInterval ==
  Len(results) = 5 =>
    LET raw  == FirstQualifying(merged, POLL_INTERVAL_KEYS, <<>>)
        row  == results[5]
    IN  /\ row.name = "monitoring.poll_interval_ms"
        /\ row.ok <=> ResolvedInterval >= 10000
        /\ Count(errors, PollIntervalError) = IF row.ok THEN 0 ELSE 1
        /\ raw = <<"9", "9", "9", "9">> => ~row.ok
        /\ raw = <<"1", "0", "0", "0", "0">> => row.ok
        /\ raw = <<"1", "e", "5">> => row.ok

\* an unparsable namespaced value hides a failing legacy one, and passes
C6_Witness ==
  /\ pc = "report"
  /\ Get(merged, POLL_INTERVAL_KEYS[1]) = <<"1", "e", "5">>
  /\ Get(merged, POLL_INTERVAL_KEYS[2]) = <<"-", "1">>
  /\ results[5].ok
  /\ errors = <<>>

(***************************************************************************)
(* C7: run_checks never raises; for every configuration map it returns a   *)
(* (results, errors) pair.                                                 *)
(***************************************************************************)
C7_NeverRaises == pc # "raised"

(***************************************************************************)
(* C8: with --strict-file and no env file main returns 1 before run_checks *)
(* is called and before any per-check line is printed; otherwise main      *)
(* returns 1 if run_checks produced an error and 0 if it produced none.    *)
(***************************************************************************)
C8_ExitCode ==
  /\ StrictFileMissing =>
       /\ pc \in {"main", "exit"}
       /\ merged = EmptyMap /\ results = <<>> /\ errors = <<>>
       /\ pc = "exit" =>
            exit_code = 1 /\ stdout = << <<"[FAIL] env file not found: ", ".env.finance">> >>
  /\ (pc = "exit" /\ ~StrictFileMissing) =>
       /\ errors # <<>> => exit_code = 1
       /\ errors = <<>> => exit_code = 0
  /\ pc # "exit" => exit_code = NotExited

\* the file is missing under --strict-file while the environment asks for
\* live mode: main has returned 1 after the one failure line
C8_Witness ==
  /\ pc = "exit"
  /\ StrictFileMissing
  /\ Get(environ, EXPERT_MODE_KEYS[1]) = Live
  /\ Len(stdout) = 1
  /\ exit_code = 1

(***************************************************************************)
(* C9: for the empty configuration map run_checks returns both modes with  *)
(* detail "stub" and ok, both live_credentials results passing, the        *)
(* monitoring result passing with 300000 and autoEvaluate=true in its      *)
(* detail, and no error.                                                   *)
(***************************************************************************)
C9_EmptyMap ==
  (RunChecksReturned /\ merged = EmptyMap) =>
    /\ results =
         << CheckResult("expert.mode", TRUE, <<"s", "t", "u", "b">>),
            CheckResult("info.mode", TRUE, <<"s", "t", "u", "b">>),
            CheckResult("expert.live_credentials", TRUE, <<"stub mode">>),
            CheckResult("info.live_credentials", TRUE, <<"stub mode">>),
            CheckResult("monitoring.poll_interval_ms", TRUE,
                        <<"3", "0", "0", "0", "0", "0", " (autoEvaluate=",
                          "t", "r", "u", "e", ")">>) >>
    /\ errors = <<>>

C9_Witness == pc = "exit" /\ merged = EmptyMap /\ Len(results) = 5 /\ exit_code = 0

(***************************************************************************)
(* C10: whenever a group's mode resolves to anything but live, its         *)
(* live_credentials result is recorded with ok = TRUE and detail "stub     *)
(* mode", and no credentials error of the group is appended, whatever the  *)
(* API key and the endpoint are.                                           *)
(***************************************************************************)
C10_StubCredentials ==
  \A g \in Groups :
    (Len(results) >= g.creds /\ ModeOf(g) # Live) =>
      /\ results[g.creds] = CheckResult(CheckNames[g.creds], TRUE, <<"stub mode">>)
      /\ Count(errors, g.message) = 0

\* an invalid mode, a key, and an endpoint on which urlparse raises
C10_Witness ==
  /\ pc = "report"
  /\ results[1].detail = <<"p", "r", "o", "d">>
  /\ pick(merged, EXPERT_API_KEY_KEYS, None) = <<"k">>
  /\ pick(merged, EXPERT_ENDPOINT_KEYS, None) = <<"h", ":", "/", "/", "[">>
  /\ results[3].ok

====
